---- MODULE Spec2Model ----
(***************************************************************************)
(* Budget and dayparting enforcement of ahmadch-25/budget_system.          *)
(*                                                                         *)
(* The persisted rows (Brand, Campaign, Spend, DaypartingSchedule) are the *)
(* state.  Money is counted in whole units of the DecimalField's last      *)
(* place (decimal_places=2), so every amount and budget is an integer.     *)
(* Every task and process_ad_spend is one action; the model methods are    *)
(* operators on a row, computed as the code computes them.                 *)
(* SpecConcurrent runs two callers at once, each a load and a save.         *)
(***************************************************************************)
EXTENDS Integers, Sequences, FiniteSets, Bags, TLC

VARIABLES
    campaign,          \* Campaign rows: id -> fields
    brand,             \* Brand rows: id -> fields
    spends,            \* Spend rows, a bag of [campaign, amount]
    schedules,         \* DaypartingSchedule rows of each campaign
    now,               \* timezone.now(): [weekday, hour]
    last,              \* history: the operation that produced this state
    recorded_daily,    \* history: amounts recorded since the last daily reset
    recorded_monthly,  \* history: amounts recorded since the last monthly reset
    calls,             \* history: successful process_ad_spend calls per campaign
    worker             \* callers in flight: the Campaign object each holds

vars == <<campaign, brand, spends, schedules, now, last,
          recorded_daily, recorded_monthly, calls, worker>>

----------------------------------------------------------------------------
\* Bounds of the model

\* daily_budget of every campaign
DailyBudget == 2
\* monthly_budget of every campaign
MonthlyBudget == 3
\* daily_budget of every brand
BrandDailyBudget == 2
\* monthly_budget of every brand
BrandMonthlyBudget == 3
\* largest amount of one spend
MaxAmount == 3
\* at most this many Spend rows are created
MaxRows == 3

Campaigns == {"c1"}
Brands == {"b1"}

\* process_ad_spend takes any Decimal: one negative amount is among the inputs
Amounts == (-1)..MaxAmount

\* The amounts the specification allows: amount >= 0
ValidAmounts == 0..MaxAmount

\* random.uniform(1.0, 5.0): a positive amount
SimAmounts == 1..MaxAmount

NULL == "null"

Status == {"ACTIVE", "PAUSED", "COMPLETED"}

PauseReasons ==
    {"DAILY_BUDGET_EXCEEDED", "MONTHLY_BUDGET_EXCEEDED", "OUTSIDE_DAYPARTING_HOURS"}

\* The clock readings the tasks are run at: Monday 1:00, Monday 14:00, Tuesday 1:00
\* The hours of a day, datetime.hour
Hours == 0..23

Clock ==
    { [weekday |-> 0, hour |-> 1],
      [weekday |-> 0, hour |-> 14],
      [weekday |-> 1, hour |-> 1] }

Schedule(day, start, end, active) ==
    [day_of_week |-> day, start_hour |-> start, end_hour |-> end, is_active |-> active]

\* The schedules a campaign is created with: none, a Monday night window
\* 22 to 2, the same window switched off
ScheduleSets ==
    { {},
      {Schedule(0, 22, 2, TRUE)},
      {Schedule(0, 22, 2, FALSE)} }

----------------------------------------------------------------------------
\* utils/helpers.py

\* Mutant: the end hour is inside the window
is_hour_in_range_inclusive(start, end, hour) ==
    IF start < end
    THEN start <= hour /\ hour <= end
    ELSE hour >= start \/ hour <= end

\* Mutant: start = end is an empty window
is_hour_in_range_empty_when_equal(start, end, hour) ==
    IF start <= end
    THEN start <= hour /\ hour < end
    ELSE hour >= start \/ hour < end

is_hour_in_range(start, end, hour) ==
    IF start < end
    THEN start <= hour /\ hour < end
    ELSE hour >= start \/ hour < end

----------------------------------------------------------------------------
\* models.py: Brand

\* Mutant: a brand back under budget is not switched on again
Brand_check_budget_limits_no_reactivation(b) ==
    IF b.daily_spend >= b.daily_budget
    THEN [b EXCEPT !.is_active = FALSE]
    ELSE IF b.monthly_spend >= b.monthly_budget
    THEN [b EXCEPT !.is_active = FALSE]
    ELSE b

Brand_check_budget_limits(b) ==
    IF b.daily_spend >= b.daily_budget
    THEN [b EXCEPT !.is_active = FALSE]
    ELSE IF b.monthly_spend >= b.monthly_budget
    THEN [b EXCEPT !.is_active = FALSE]
    ELSE IF ~b.is_active
    THEN [b EXCEPT !.is_active = TRUE]
    ELSE b

Brand_reset_daily_spend(b) == [b EXCEPT !.daily_spend = 0]

Brand_reset_monthly_spend(b) == [b EXCEPT !.monthly_spend = 0]

----------------------------------------------------------------------------
\* models.py: Campaign

\* Mutant: only the daily total is compared
can_resume_daily_only(c) ==
    c.daily_spend < c.daily_budget

can_resume(c) ==
    /\ c.daily_spend < c.daily_budget
    /\ c.monthly_spend < c.monthly_budget

\* Mutant: the sweep's check pauses only above the budget, as the recording
\* path does
Campaign_check_budget_limits_strict(c) ==
    IF c.daily_spend > c.daily_budget
    THEN [c EXCEPT !.status = "PAUSED", !.pause_reason = "DAILY_BUDGET_EXCEEDED"]
    ELSE IF c.monthly_spend > c.monthly_budget
    THEN [c EXCEPT !.status = "PAUSED", !.pause_reason = "MONTHLY_BUDGET_EXCEEDED"]
    ELSE IF c.status = "PAUSED" /\ c.daily_spend < c.daily_budget
                               /\ c.monthly_spend < c.monthly_budget
    THEN [c EXCEPT !.status = "ACTIVE", !.pause_reason = NULL]
    ELSE c

Campaign_check_budget_limits(c) ==
    IF c.daily_spend >= c.daily_budget
    THEN [c EXCEPT !.status = "PAUSED", !.pause_reason = "DAILY_BUDGET_EXCEEDED"]
    ELSE IF c.monthly_spend >= c.monthly_budget
    THEN [c EXCEPT !.status = "PAUSED", !.pause_reason = "MONTHLY_BUDGET_EXCEEDED"]
    ELSE IF c.status = "PAUSED" /\ can_resume(c)
    THEN [c EXCEPT !.status = "ACTIVE", !.pause_reason = NULL]
    ELSE c

\* Mutant: what was spent above the budget is carried into the next day
Campaign_reset_daily_spend_carry(c) ==
    [c EXCEPT !.daily_spend = IF @ > c.daily_budget THEN @ - c.daily_budget ELSE 0]

Campaign_reset_daily_spend(c) == [c EXCEPT !.daily_spend = 0]

\* Mutant: the monthly reset zeroes the daily total too
Campaign_reset_monthly_spend_all(c) ==
    [c EXCEPT !.monthly_spend = 0, !.daily_spend = 0]

Campaign_reset_monthly_spend(c) == [c EXCEPT !.monthly_spend = 0]

\* Mutant: the schedule's day_of_week is not compared
is_within_dayparting_any_day(scheds, t) ==
    \E s \in scheds :
        /\ s.is_active
        /\ is_hour_in_range(s.start_hour, s.end_hour, t.hour)

\* Mutant: a schedule switched off still opens its window
is_within_dayparting_ignores_active(scheds, t) ==
    \E s \in scheds :
        /\ s.day_of_week = t.weekday
        /\ is_hour_in_range(s.start_hour, s.end_hour, t.hour)

is_within_dayparting(scheds, t) ==
    \E s \in scheds :
        /\ s.is_active
        /\ s.day_of_week = t.weekday
        /\ is_hour_in_range(s.start_hour, s.end_hour, t.hour)

----------------------------------------------------------------------------
\* service.py

\* The rows process_ad_spend writes: db.campaign and db.spends
Rows == [campaign |-> campaign, spends |-> spends]

\* Mutant: no transaction, the writes made before the failure stay
transaction_none(before, after, failed) == after

\* with transaction.atomic(): the writes of a block that raised are rolled back
transaction_atomic(before, after, failed) ==
    IF failed THEN before ELSE after

\* Mutant: a zero amount creates no Spend row
Spend_objects_create_nonzero(rows, id, amount) ==
    IF amount = 0
    THEN rows
    ELSE rows (+) SetToBag({[campaign |-> id, amount |-> amount]})

\* Step 1: Spend.objects.create(campaign, amount, ...)
Spend_objects_create(rows, id, amount) ==
    rows (+) SetToBag({[campaign |-> id, amount |-> amount]})

\* Mutant: only the daily total is incremented
add_spend_daily_only(c, amount) ==
    [c EXCEPT !.daily_spend = @ + amount]

\* Mutant: a spend is added only to a campaign that is ACTIVE
add_spend_active_only(c, amount) ==
    IF c.status = "ACTIVE"
    THEN [c EXCEPT !.daily_spend = @ + amount, !.monthly_spend = @ + amount]
    ELSE c

\* The campaign object after step 2 (totals) and after step 3 (pause)
add_spend(c, amount) ==
    [c EXCEPT !.daily_spend = @ + amount, !.monthly_spend = @ + amount]

\* Mutant: the monthly limit is checked before the daily one
inline_budget_check_monthly_first(c) ==
    IF c.monthly_spend > c.monthly_budget
    THEN [c EXCEPT !.status = "PAUSED",
                   !.pause_reason = "MONTHLY_BUDGET_EXCEEDED",
                   !.is_active = FALSE]
    ELSE IF c.daily_spend > c.daily_budget
    THEN [c EXCEPT !.status = "PAUSED",
                   !.pause_reason = "DAILY_BUDGET_EXCEEDED",
                   !.is_active = FALSE]
    ELSE c

\* Mutant: the recording path pauses at the boundary as the sweep does
inline_budget_check_at_boundary(c) ==
    IF c.daily_spend >= c.daily_budget
    THEN [c EXCEPT !.status = "PAUSED",
                   !.pause_reason = "DAILY_BUDGET_EXCEEDED",
                   !.is_active = FALSE]
    ELSE IF c.monthly_spend >= c.monthly_budget
    THEN [c EXCEPT !.status = "PAUSED",
                   !.pause_reason = "MONTHLY_BUDGET_EXCEEDED",
                   !.is_active = FALSE]
    ELSE c

\* Mutant: the recording path checks the daily limit only
inline_budget_check_daily_only(c) ==
    IF c.daily_spend > c.daily_budget
    THEN [c EXCEPT !.status = "PAUSED",
                   !.pause_reason = "DAILY_BUDGET_EXCEEDED",
                   !.is_active = FALSE]
    ELSE c

inline_budget_check(c) ==
    IF c.daily_spend > c.daily_budget
    THEN [c EXCEPT !.status = "PAUSED",
                   !.pause_reason = "DAILY_BUDGET_EXCEEDED",
                   !.is_active = FALSE]
    ELSE IF c.monthly_spend > c.monthly_budget
    THEN [c EXCEPT !.status = "PAUSED",
                   !.pause_reason = "MONTHLY_BUDGET_EXCEEDED",
                   !.is_active = FALSE]
    ELSE c

\* Step 3 saves only when a limit is exceeded
pause_saved(c) ==
    \/ c.daily_spend > c.daily_budget
    \/ c.monthly_spend > c.monthly_budget

\* process_ad_spend(campaign, amount) on the rows db.  fail_at is the
\* step that raises: 0 none, 1 Spend.objects.create, 2 the save of the totals,
\* 3 the save of the pause.  The rows written before the step that raises are
\* the block's writes.
process_ad_spend(db, id, amount, fail_at) ==
    LET created == [db EXCEPT !.spends = Spend_objects_create(@, id, amount)]
        obj1 == add_spend(db.campaign[id], amount)
        totals == [created EXCEPT !.campaign[id] = obj1]
        paused == [totals EXCEPT !.campaign[id] = inline_budget_check(obj1)]
        written == CASE fail_at = 1 -> db
                     [] fail_at = 2 -> created
                     [] fail_at = 3 -> totals
                     [] OTHER -> paused
    IN  transaction_atomic(db, written, fail_at # 0)

----------------------------------------------------------------------------
\* History

Did(op) ==
    [op |-> op, target |-> NULL, amount |-> 0, fail_at |-> 0, result |-> NULL]

DidOn(op, id) ==
    [op |-> op, target |-> id, amount |-> 0, fail_at |-> 0, result |-> NULL]

\* A call that returns a value
DidReturn(op, id, result) ==
    [op |-> op, target |-> id, amount |-> 0, fail_at |-> 0, result |-> result]

\* amount is the amount a completed call recorded; a failed call recorded none
DidSpend(id, amount, fail_at) ==
    [op |-> "process_ad_spend", target |-> id,
     amount |-> IF fail_at = 0 THEN amount ELSE 0, fail_at |-> fail_at,
     result |-> NULL]

NoHistoryChange == UNCHANGED <<recorded_daily, recorded_monthly, calls>>

----------------------------------------------------------------------------
\* Callers in flight.  A caller holds a Campaign object it loaded from the
\* rows; the sections above run each operation on the rows as they are, which
\* is a caller that loads and saves with no other caller in between.

Workers == {"w1", "w2"}

Idle ==
    [pc |-> "idle", op |-> NULL, target |-> NULL, amount |-> 0,
     obj |-> NULL, start |-> NULL]

----------------------------------------------------------------------------
\* Initial states

NewCampaign ==
    [brand |-> "b1", status |-> "ACTIVE", pause_reason |-> NULL, is_active |-> TRUE,
     daily_budget |-> DailyBudget, monthly_budget |-> MonthlyBudget,
     daily_spend |-> 0, monthly_spend |-> 0]

NewBrand ==
    [is_active |-> TRUE,
     daily_budget |-> BrandDailyBudget, monthly_budget |-> BrandMonthlyBudget,
     daily_spend |-> 0, monthly_spend |-> 0]

\* Rows as the model defaults create them; a campaign may be COMPLETED
Init ==
    /\ campaign \in [Campaigns -> {[NewCampaign EXCEPT !.status = s] :
                                        s \in {"ACTIVE", "COMPLETED"}}]
    /\ brand = [b \in Brands |-> NewBrand]
    /\ spends = EmptyBag
    /\ schedules \in [Campaigns -> ScheduleSets]
    /\ now \in Clock
    /\ last = Did("created")
    /\ recorded_daily = [c \in Campaigns |-> 0]
    /\ recorded_monthly = [c \in Campaigns |-> 0]
    /\ calls = [c \in Campaigns |-> 0]
    /\ worker = [w \in Workers |-> Idle]

----------------------------------------------------------------------------
\* service.py: the event-driven entry point

Call_process_ad_spend(id, amount, fail_at) ==
    LET db == process_ad_spend(Rows, id, amount, fail_at)
        ok == fail_at = 0
    IN  /\ BagCardinality(spends) < MaxRows
        /\ fail_at = 3 => pause_saved(add_spend(campaign[id], amount))
        /\ campaign' = db.campaign
        /\ spends' = db.spends
        /\ last' = DidSpend(id, amount, fail_at)
        /\ recorded_daily' =
               [recorded_daily EXCEPT ![id] = IF ok THEN @ + amount ELSE @]
        /\ recorded_monthly' =
               [recorded_monthly EXCEPT ![id] = IF ok THEN @ + amount ELSE @]
        /\ calls' = [calls EXCEPT ![id] = IF ok THEN @ + 1 ELSE @]
        /\ UNCHANGED <<brand, schedules, now, worker>>

----------------------------------------------------------------------------
\* tasks.py

\* Mutant: the budget sweep passes over the campaigns of an inactive brand
budget_swept_brand_gate(rows) ==
    [id \in Campaigns |->
        IF /\ brand[rows[id].brand].is_active
           /\ rows[id].is_active /\ rows[id].status = "ACTIVE"
        THEN Campaign_check_budget_limits(rows[id])
        ELSE rows[id]]

\* The Campaign rows after the loop of pause_campaigns_exceeding_budget
budget_swept(rows) ==
    [id \in Campaigns |->
        IF rows[id].is_active /\ rows[id].status = "ACTIVE"
        THEN Campaign_check_budget_limits(rows[id])
        ELSE rows[id]]

pause_campaigns_exceeding_budget ==
    /\ campaign' = budget_swept(campaign)
    /\ last' = Did("pause_campaigns_exceeding_budget")
    /\ UNCHANGED <<brand, spends, schedules, now, worker>>
    /\ NoHistoryChange

\* The Brand rows and the Campaign rows after the loops of the reset tasks
brands_reset_daily(rows) == [b \in Brands |-> Brand_reset_daily_spend(rows[b])]

campaigns_reset_daily(rows) ==
    [id \in Campaigns |-> Campaign_reset_daily_spend(rows[id])]

brands_reset_monthly(rows) == [b \in Brands |-> Brand_reset_monthly_spend(rows[b])]

campaigns_reset_monthly(rows) ==
    [id \in Campaigns |-> Campaign_reset_monthly_spend(rows[id])]

reset_daily_budgets ==
    /\ brand' = brands_reset_daily(brand)
    /\ campaign' = campaigns_reset_daily(campaign)
    /\ last' = Did("reset_daily_budgets")
    /\ recorded_daily' = [id \in Campaigns |-> 0]
    /\ UNCHANGED <<spends, schedules, now, recorded_monthly, calls, worker>>

reset_monthly_budgets ==
    /\ brand' = brands_reset_monthly(brand)
    /\ campaign' = campaigns_reset_monthly(campaign)
    /\ last' = Did("reset_monthly_budgets")
    /\ recorded_monthly' = [id \in Campaigns |-> 0]
    /\ UNCHANGED <<spends, schedules, now, recorded_daily, calls, worker>>

\* Mutant: the reactivation selects on is_active as the other sweeps do
reactivated_active_only(rows) ==
    [id \in Campaigns |->
        IF rows[id].is_active /\ rows[id].status = "PAUSED" /\ can_resume(rows[id])
        THEN [rows[id] EXCEPT !.status = "ACTIVE", !.pause_reason = NULL]
        ELSE rows[id]]

\* Mutant: the reactivation restores is_active with the status
reactivated_sets_is_active(rows) ==
    [id \in Campaigns |->
        IF rows[id].status = "PAUSED" /\ can_resume(rows[id])
        THEN [rows[id] EXCEPT !.status = "ACTIVE", !.pause_reason = NULL,
                              !.is_active = TRUE]
        ELSE rows[id]]

\* The Campaign rows after the loop of reactivate_eligible_campaigns
reactivated(rows) ==
    [id \in Campaigns |->
        IF rows[id].status = "PAUSED" /\ can_resume(rows[id])
        THEN [rows[id] EXCEPT !.status = "ACTIVE", !.pause_reason = NULL]
        ELSE rows[id]]

reactivate_eligible_campaigns ==
    /\ campaign' = reactivated(campaign)
    /\ last' = Did("reactivate_eligible_campaigns")
    /\ UNCHANGED <<brand, spends, schedules, now, worker>>
    /\ NoHistoryChange

\* Mutant: the reactivation leaves the pause_reason in place
dayparting_step_keeps_reason(c, scheds, t) ==
    IF scheds = {}
    THEN c
    ELSE IF ~is_within_dayparting(scheds, t)
    THEN IF c.status # "PAUSED" \/ c.pause_reason # "OUTSIDE_DAYPARTING_HOURS"
         THEN [c EXCEPT !.status = "PAUSED",
                        !.pause_reason = "OUTSIDE_DAYPARTING_HOURS"]
         ELSE c
    ELSE IF /\ c.status = "PAUSED"
            /\ c.pause_reason = "OUTSIDE_DAYPARTING_HOURS"
            /\ can_resume(c)
    THEN [c EXCEPT !.status = "ACTIVE"]
    ELSE c

\* Mutant: the reactivation does not ask can_resume
dayparting_step_no_budget(c, scheds, t) ==
    IF scheds = {}
    THEN c
    ELSE IF ~is_within_dayparting(scheds, t)
    THEN IF c.status # "PAUSED" \/ c.pause_reason # "OUTSIDE_DAYPARTING_HOURS"
         THEN [c EXCEPT !.status = "PAUSED",
                        !.pause_reason = "OUTSIDE_DAYPARTING_HOURS"]
         ELSE c
    ELSE IF /\ c.status = "PAUSED"
            /\ c.pause_reason = "OUTSIDE_DAYPARTING_HOURS"
    THEN [c EXCEPT !.status = "ACTIVE", !.pause_reason = NULL]
    ELSE c

\* Mutant: a campaign with no schedule is not skipped
dayparting_step_no_skip(c, scheds, t) ==
    IF ~is_within_dayparting(scheds, t)
    THEN IF c.status # "PAUSED" \/ c.pause_reason # "OUTSIDE_DAYPARTING_HOURS"
         THEN [c EXCEPT !.status = "PAUSED",
                        !.pause_reason = "OUTSIDE_DAYPARTING_HOURS"]
         ELSE c
    ELSE IF /\ c.status = "PAUSED"
            /\ c.pause_reason = "OUTSIDE_DAYPARTING_HOURS"
            /\ can_resume(c)
    THEN [c EXCEPT !.status = "ACTIVE", !.pause_reason = NULL]
    ELSE c

\* The body of enforce_dayparting's loop for one campaign with is_active True
dayparting_step(c, scheds, t) ==
    IF scheds = {}
    THEN c
    ELSE IF ~is_within_dayparting(scheds, t)
    THEN IF c.status # "PAUSED" \/ c.pause_reason # "OUTSIDE_DAYPARTING_HOURS"
         THEN [c EXCEPT !.status = "PAUSED",
                        !.pause_reason = "OUTSIDE_DAYPARTING_HOURS"]
         ELSE c
    ELSE IF /\ c.status = "PAUSED"
            /\ c.pause_reason = "OUTSIDE_DAYPARTING_HOURS"
            /\ can_resume(c)
    THEN [c EXCEPT !.status = "ACTIVE", !.pause_reason = NULL]
    ELSE c

\* The Campaign rows after the loop of enforce_dayparting run at time t
dayparted(rows, t) ==
    [id \in Campaigns |->
        IF rows[id].is_active
        THEN dayparting_step(rows[id], schedules[id], t)
        ELSE rows[id]]

enforce_dayparting ==
    /\ campaign' = dayparted(campaign, now)
    /\ last' = Did("enforce_dayparting")
    /\ UNCHANGED <<brand, spends, schedules, now, worker>>
    /\ NoHistoryChange

\* Mutant: the simulation does not look at the hours
simulated_any_hour ==
    {id \in Campaigns :
        /\ campaign[id].is_active
        /\ campaign[id].status = "ACTIVE"
        /\ schedules[id] # {}}

\* The campaigns simulate_ad_spend feeds a spend for
simulated ==
    {id \in Campaigns :
        /\ campaign[id].is_active
        /\ campaign[id].status = "ACTIVE"
        /\ schedules[id] # {}
        /\ is_within_dayparting(schedules[id], now)}

RECURSIVE simulate_loop(_, _, _)
simulate_loop(db, todo, amount) ==
    IF todo = {}
    THEN db
    ELSE LET id == CHOOSE x \in todo : TRUE
         IN  simulate_loop(process_ad_spend(db, id, amount[id], 0),
                           todo \ {id}, amount)

simulate_ad_spend ==
    \E amount \in [simulated -> SimAmounts] :
        LET db == simulate_loop(Rows, simulated, amount)
        IN  /\ BagCardinality(spends) + Cardinality(simulated) <= MaxRows
            /\ campaign' = db.campaign
            /\ spends' = db.spends
            /\ last' = Did("simulate_ad_spend")
            /\ recorded_daily' =
                   [id \in Campaigns |->
                       recorded_daily[id] + IF id \in simulated THEN amount[id] ELSE 0]
            /\ recorded_monthly' =
                   [id \in Campaigns |->
                       recorded_monthly[id] + IF id \in simulated THEN amount[id] ELSE 0]
            /\ calls' =
                   [id \in Campaigns |->
                       calls[id] + IF id \in simulated THEN 1 ELSE 0]
            /\ UNCHANGED <<brand, schedules, now, worker>>

\* Time passes between two runs
Tick ==
    /\ now' \in Clock \ {now}
    /\ last' = Did("tick")
    /\ UNCHANGED <<campaign, brand, spends, schedules, worker>>
    /\ NoHistoryChange

\* The scheduled tasks, run one at a time, and the passing of time
Tasks ==
    \/ pause_campaigns_exceeding_budget
    \/ reset_daily_budgets
    \/ reset_monthly_budgets
    \/ reactivate_eligible_campaigns
    \/ enforce_dayparting
    \/ simulate_ad_spend
    \/ Tick

Next ==
    \/ \E id \in Campaigns, amount \in Amounts, fail_at \in 0..3 :
           Call_process_ad_spend(id, amount, fail_at)
    \/ Tasks

\* Every caller's amount is a Decimal of either sign
Spec == Init /\ [][Next]_vars

NextValid ==
    \/ \E id \in Campaigns, amount \in ValidAmounts, fail_at \in 0..3 :
           Call_process_ad_spend(id, amount, fail_at)
    \/ Tasks

\* The callers pass only the amounts the specification allows, amount >= 0
SpecValid == Init /\ [][NextValid]_vars

----------------------------------------------------------------------------
\* The model methods called on rows holding any field values (rows are created
\* and edited outside the core: conftest's factories, the admin)

AnyCampaign ==
    { [NewCampaign EXCEPT !.status = s, !.pause_reason = r, !.is_active = a,
                          !.daily_spend = d, !.monthly_spend = m] :
        s \in Status, r \in PauseReasons \cup {NULL}, a \in BOOLEAN,
        d \in 0..(DailyBudget + 1), m \in 0..(MonthlyBudget + 1) }

AnyBrand ==
    { [NewBrand EXCEPT !.is_active = a, !.daily_spend = d, !.monthly_spend = m] :
        a \in BOOLEAN,
        d \in 0..(BrandDailyBudget + 1), m \in 0..(BrandMonthlyBudget + 1) }

InitHistory ==
    /\ spends = EmptyBag
    /\ last = Did("created")
    /\ recorded_daily = [c \in Campaigns |-> campaign[c].daily_spend]
    /\ recorded_monthly = [c \in Campaigns |-> campaign[c].monthly_spend]
    /\ calls = [c \in Campaigns |-> 0]
    /\ worker = [w \in Workers |-> Idle]

InitCampaignRows ==
    /\ campaign \in [Campaigns -> AnyCampaign]
    /\ brand = [b \in Brands |-> NewBrand]
    /\ schedules \in [Campaigns -> ScheduleSets]
    /\ now \in Clock
    /\ InitHistory

InitBrandRows ==
    /\ campaign = [c \in Campaigns |-> NewCampaign]
    /\ brand \in [Brands -> AnyBrand]
    /\ schedules = [c \in Campaigns |-> {}]
    /\ now \in Clock
    /\ InitHistory

Call_Campaign_check_budget_limits(id) ==
    /\ campaign' = [campaign EXCEPT ![id] = Campaign_check_budget_limits(@)]
    /\ last' = DidOn("Campaign.check_budget_limits", id)
    /\ UNCHANGED <<brand, spends, schedules, now, worker>>
    /\ NoHistoryChange

Call_Brand_check_budget_limits(b) ==
    /\ brand' = [brand EXCEPT ![b] = Brand_check_budget_limits(@)]
    /\ last' = DidOn("Brand.check_budget_limits", b)
    /\ UNCHANGED <<campaign, spends, schedules, now, worker>>
    /\ NoHistoryChange

NextCampaignRows ==
    \E id \in Campaigns : Call_Campaign_check_budget_limits(id)

NextBrandRows ==
    \/ \E b \in Brands : Call_Brand_check_budget_limits(b)
    \/ pause_campaigns_exceeding_budget
    \/ reset_daily_budgets
    \/ reset_monthly_budgets

\* enforce_dayparting run over campaigns in any state, at any reading of the clock
NextDayparting ==
    \/ enforce_dayparting
    \/ Tick

\* The reset tasks run over brands and campaigns in any state
InitResets ==
    /\ campaign \in [Campaigns -> AnyCampaign]
    /\ brand \in [Brands -> AnyBrand]
    /\ schedules = [c \in Campaigns |-> {}]
    /\ now \in Clock
    /\ InitHistory

NextResets ==
    \/ reset_daily_budgets
    \/ reset_monthly_budgets

\* is_hour_in_range called as is_within_dayparting calls it, on a Monday
\* schedule with any start and end hour at any hour of a Monday
InitHours ==
    /\ campaign = [c \in Campaigns |-> NewCampaign]
    /\ brand = [b \in Brands |-> NewBrand]
    /\ schedules \in { [c \in Campaigns |-> {Schedule(0, start, end, TRUE)}] :
                          start \in Hours, end \in Hours }
    /\ now \in { [weekday |-> 0, hour |-> h] : h \in Hours }
    /\ InitHistory

Call_is_hour_in_range(id) ==
    /\ \E s \in schedules[id] :
           last' = DidReturn("is_hour_in_range", id,
                             is_hour_in_range(s.start_hour, s.end_hour, now.hour))
    /\ UNCHANGED <<campaign, brand, spends, schedules, now, worker>>
    /\ NoHistoryChange

NextHours ==
    \E id \in Campaigns : Call_is_hour_in_range(id)

\* Campaign.is_within_dayparting called with any set of schedules drawn from a
\* day window 9 to 17 and a night window 22 to 2, on Monday or Tuesday, active
\* or not, at hours inside, outside and on the bounds of the windows
WindowSchedules ==
    { Schedule(day, w[1], w[2], active) :
        day \in {0, 1}, w \in {<<9, 17>>, <<22, 2>>}, active \in BOOLEAN }

WindowClock ==
    { [weekday |-> d, hour |-> h] : d \in {0, 1}, h \in {1, 9, 14, 17, 22} }

InitWithin ==
    /\ campaign = [c \in Campaigns |-> NewCampaign]
    /\ brand = [b \in Brands |-> NewBrand]
    /\ schedules \in [Campaigns -> SUBSET WindowSchedules]
    /\ now \in WindowClock
    /\ InitHistory

Call_is_within_dayparting(id) ==
    /\ last' = DidReturn("is_within_dayparting", id,
                         is_within_dayparting(schedules[id], now))
    /\ UNCHANGED <<campaign, brand, spends, schedules, now, worker>>
    /\ NoHistoryChange

NextWithin ==
    \E id \in Campaigns : Call_is_within_dayparting(id)

\* The campaign-level operations run under a brand in any budget state
InitLedgers ==
    /\ campaign = [c \in Campaigns |-> NewCampaign]
    /\ brand \in [Brands -> AnyBrand]
    /\ schedules \in [Campaigns -> ScheduleSets]
    /\ now \in Clock
    /\ InitHistory

NextLedgers ==
    \/ \E id \in Campaigns, amount \in ValidAmounts :
           Call_process_ad_spend(id, amount, 0)
    \/ pause_campaigns_exceeding_budget
    \/ reactivate_eligible_campaigns
    \/ enforce_dayparting
    \/ \E b \in Brands : Call_Brand_check_budget_limits(b)

\* Two callers at once on the same rows.  Each loads its Campaign object,
\* then saves; the other caller may load or save in between.

\* Model.save(update_fields=fields): the named columns of the row take the
\* object's values, the others are not written
save(row, obj, fields) ==
    [f \in DOMAIN row |-> IF f \in fields THEN obj[f] ELSE row[f]]

\* What one caller does to one campaign
Jobs ==
    { [op |-> "process_ad_spend", amount |-> a] : a \in SimAmounts }
    \cup { [op |-> o, amount |-> 0] :
              o \in {"pause_campaigns_exceeding_budget", "reset_daily_budgets",
                     "reactivate_eligible_campaigns"} }

\* The rows before the two callers start, each the outcome of operations run
\* one at a time on a new campaign: none; a spend of 1; a spend of the daily
\* budget, the budget sweep and the daily reset; a spend above the daily budget
ConcurrentStarts ==
    { [row |-> NewCampaign, spent |-> 0],
      [row |-> inline_budget_check(add_spend(NewCampaign, 1)), spent |-> 1],
      [row |-> Campaign_reset_daily_spend(
                   Campaign_check_budget_limits(
                       inline_budget_check(add_spend(NewCampaign, DailyBudget)))),
       spent |-> DailyBudget],
      [row |-> inline_budget_check(add_spend(NewCampaign, MaxAmount)),
       spent |-> MaxAmount] }

InitConcurrent ==
    /\ \E st \in ConcurrentStarts :
           /\ campaign = [c \in Campaigns |-> st.row]
           /\ spends = IF st.spent = 0
                       THEN EmptyBag
                       ELSE SetToBag({ [campaign |-> c, amount |-> st.spent] :
                                         c \in Campaigns })
    /\ brand = [b \in Brands |-> NewBrand]
    /\ schedules = [c \in Campaigns |-> {}]
    /\ now \in Clock
    /\ last = Did("created")
    /\ recorded_daily = [c \in Campaigns |-> campaign[c].daily_spend]
    /\ recorded_monthly = [c \in Campaigns |-> campaign[c].monthly_spend]
    /\ calls = [c \in Campaigns |-> 0]
    /\ worker \in [Workers ->
                      { [pc |-> "ready", op |-> j.op, target |-> id,
                         amount |-> j.amount, obj |-> NULL,
                         start |-> campaign[id]] :
                          j \in Jobs, id \in Campaigns }]

\* The querysets of the tasks: the rows a loop visits
selected(op, row) ==
    CASE op = "pause_campaigns_exceeding_budget" ->
             row.is_active /\ row.status = "ACTIVE"
      [] op = "reactivate_eligible_campaigns" -> row.status = "PAUSED"
      [] OTHER -> TRUE

\* The caller reads the row into its Campaign object
Load(w) ==
    LET j == worker[w]
        row == campaign[j.target]
    IN  /\ j.pc = "ready"
        /\ worker' = [worker EXCEPT ![w] =
                          IF selected(j.op, row)
                          THEN [j EXCEPT !.pc = "loaded", !.obj = row]
                          ELSE [j EXCEPT !.pc = "done"]]
        /\ last' = DidOn("load", j.target)
        /\ UNCHANGED <<campaign, brand, spends, schedules, now>>
        /\ NoHistoryChange

\* The row after each operation has saved from the object obj
saved(op, row, obj, amount) ==
    CASE op = "process_ad_spend" ->
             LET obj1 == add_spend(obj, amount)
                 totals == save(row, obj1, {"daily_spend", "monthly_spend"})
             IN  IF pause_saved(obj1)
                 THEN save(totals, inline_budget_check(obj1),
                           {"status", "pause_reason", "is_active"})
                 ELSE totals
      [] op = "pause_campaigns_exceeding_budget" ->
             IF Campaign_check_budget_limits(obj) # obj
             THEN save(row, Campaign_check_budget_limits(obj),
                       {"status", "pause_reason"})
             ELSE row
      [] op = "reset_daily_budgets" ->
             save(row, Campaign_reset_daily_spend(obj), {"daily_spend"})
      [] op = "reactivate_eligible_campaigns" ->
             IF can_resume(obj)
             THEN save(row, [obj EXCEPT !.status = "ACTIVE",
                                        !.pause_reason = NULL],
                       {"status", "pause_reason"})
             ELSE row

\* The caller's writes reach the rows: the commit of process_ad_spend's
\* transaction, the save of a task's step
Save(w) ==
    LET j == worker[w]
        id == j.target
        spent == j.op = "process_ad_spend"
    IN  /\ j.pc = "loaded"
        /\ campaign' = [campaign EXCEPT
                            ![id] = saved(j.op, @, j.obj, j.amount)]
        /\ spends' = IF spent
                      THEN Spend_objects_create(spends, id, j.amount)
                      ELSE spends
        /\ worker' = [worker EXCEPT ![w] = [j EXCEPT !.pc = "done"]]
        /\ last' = [DidOn(j.op, id) EXCEPT !.amount = j.amount]
        /\ recorded_daily' =
               [recorded_daily EXCEPT
                   ![id] = IF spent THEN @ + j.amount
                           ELSE IF j.op = "reset_daily_budgets" THEN 0 ELSE @]
        /\ recorded_monthly' =
               [recorded_monthly EXCEPT ![id] = IF spent THEN @ + j.amount ELSE @]
        /\ calls' = [calls EXCEPT ![id] = IF spent THEN @ + 1 ELSE @]
        /\ UNCHANGED <<brand, schedules, now>>

NextConcurrent ==
    \/ \E w \in Workers : Load(w)
    \/ \E w \in Workers : Save(w)

SpecCampaignRows == InitCampaignRows /\ [][NextCampaignRows]_vars

SpecDayparting == InitCampaignRows /\ [][NextDayparting]_vars

SpecResets == InitResets /\ [][NextResets]_vars

SpecHours == InitHours /\ [][NextHours]_vars

SpecWithin == InitWithin /\ [][NextWithin]_vars

SpecLedgers == InitLedgers /\ [][NextLedgers]_vars

SpecConcurrent == InitConcurrent /\ [][NextConcurrent]_vars

SpecBrandRows == InitBrandRows /\ [][NextBrandRows]_vars

----------------------------------------------------------------------------
\* Properties

Recorded == last.op = "process_ad_spend" /\ last.fail_at = 0

Recorded_ == last'.op = "process_ad_spend" /\ last'.fail_at = 0

DailyExceeded(c) == c.daily_spend > c.daily_budget

MonthlyExceeded(c) == c.monthly_spend > c.monthly_budget

PausedFor(c, reason, active) ==
    c.status = "PAUSED" /\ c.pause_reason = reason /\ c.is_active = active

\* C1: after a process_ad_spend that completed, a campaign whose updated
\* daily_spend is above daily_budget is PAUSED for DAILY_BUDGET_EXCEEDED with
\* is_active False (also when the monthly limit is exceeded too); otherwise one
\* whose monthly_spend is above monthly_budget is PAUSED for
\* MONTHLY_BUDGET_EXCEEDED with is_active False.
C1_InlinePause ==
    Recorded =>
        LET c == campaign[last.target]
        IN  /\ DailyExceeded(c) => PausedFor(c, "DAILY_BUDGET_EXCEEDED", FALSE)
            /\ ~DailyExceeded(c) /\ MonthlyExceeded(c) =>
                    PausedFor(c, "MONTHLY_BUDGET_EXCEEDED", FALSE)

\* A spend has just pushed both totals above their budgets
C1_Witness ==
    /\ Recorded
    /\ DailyExceeded(campaign[last.target])
    /\ MonthlyExceeded(campaign[last.target])
    /\ PausedFor(campaign[last.target], "DAILY_BUDGET_EXCEEDED", FALSE)

\* C2: daily_spend is the sum of the amounts recorded since the last
\* reset_daily_budgets and monthly_spend the sum of those recorded since the
\* last reset_monthly_budgets, whatever sweeps ran in between.
C2_LedgerTotals ==
    \A id \in Campaigns :
        /\ campaign[id].daily_spend = recorded_daily[id]
        /\ campaign[id].monthly_spend = recorded_monthly[id]

\* Two spends with a daily reset between them: the two totals differ
C2_Witness ==
    \E id \in Campaigns :
        /\ calls[id] >= 2
        /\ campaign[id].daily_spend > 0
        /\ campaign[id].monthly_spend > campaign[id].daily_spend
        /\ last.op = "enforce_dayparting"

SpendsOf(id) ==
    LET rows == {r \in BagToSet(spends) : r.campaign = id}
        RECURSIVE count(_)
        count(S) == IF S = {} THEN 0
                    ELSE LET r == CHOOSE x \in S : TRUE
                         IN  CopiesIn(r, spends) + count(S \ {r})
    IN  count(rows)

\* C3: a process_ad_spend that completed added exactly one Spend row with the
\* campaign and the amount given (a zero amount too); no step removes or
\* changes a Spend row; only the recording operations add rows; a campaign
\* has as many Spend rows as completed process_ad_spend calls.
C3_AppendOnly ==
    /\ [](\A id \in Campaigns : SpendsOf(id) = calls[id])
    /\ [][ /\ spends \sqsubseteq spends'
           /\ Recorded_ =>
                  spends' = spends (+)
                      SetToBag({[campaign |-> last'.target, amount |-> last'.amount]})
           /\ last'.op \notin {"process_ad_spend", "simulate_ad_spend"} =>
                  spends' = spends
           /\ last'.op = "process_ad_spend" /\ last'.fail_at # 0 =>
                  spends' = spends ]_vars

\* A zero amount was recorded as the second row of its campaign
C3_Witness ==
    /\ Recorded
    /\ last.amount = 0
    /\ CopiesIn([campaign |-> last.target, amount |-> 0], spends) = 1
    /\ calls[last.target] = 2

\* C4: a process_ad_spend that fails at any of its three steps leaves the
\* Spend rows and every field of the campaign as they were before the call.
C4_Atomic ==
    [][ last'.op = "process_ad_spend" /\ last'.fail_at # 0 =>
            campaign' = campaign /\ spends' = spends ]_vars

\* The save of the pause failed on the first spend of an ACTIVE campaign:
\* no row, no totals, still ACTIVE
C4_Witness ==
    /\ last.op = "process_ad_spend"
    /\ last.fail_at = 3
    /\ spends = EmptyBag
    /\ campaign[last.target] = NewCampaign

\* C5: a process_ad_spend whose updated daily_spend and monthly_spend are both
\* at or below their budgets leaves status, pause_reason and is_active as
\* they were.
C5_NoPauseAtBoundary ==
    [][ \A id \in Campaigns :
           /\ Recorded_
           /\ last'.target = id
           /\ ~DailyExceeded(campaign'[id])
           /\ ~MonthlyExceeded(campaign'[id])
           => /\ campaign'[id].status = campaign[id].status
              /\ campaign'[id].pause_reason = campaign[id].pause_reason
              /\ campaign'[id].is_active = campaign[id].is_active ]_vars

\* A positive spend landed exactly on the daily budget and the campaign is
\* still ACTIVE
C5_Witness ==
    /\ Recorded
    /\ last.amount > 0
    /\ campaign[last.target].daily_spend = campaign[last.target].daily_budget
    /\ campaign[last.target].monthly_spend <= campaign[last.target].monthly_budget
    /\ campaign[last.target].status = "ACTIVE"
    /\ campaign[last.target].is_active

BudgetSwept == last.op = "pause_campaigns_exceeding_budget"

BudgetReasons == {"DAILY_BUDGET_EXCEEDED", "MONTHLY_BUDGET_EXCEEDED"}

\* C6: after any run of pause_campaigns_exceeding_budget no campaign is ACTIVE
\* with daily_spend at or above daily_budget or monthly_spend at or above
\* monthly_budget (a spend that landed on the boundary is paused by the next
\* sweep).
C6_SweepPausesAtBoundary ==
    BudgetSwept =>
        \A id \in Campaigns :
            campaign[id].status = "ACTIVE" => can_resume(campaign[id])

\* C7: after Campaign.check_budget_limits, a campaign with daily_spend at or
\* above daily_budget is PAUSED for DAILY_BUDGET_EXCEEDED (also when the
\* monthly limit is reached too), and otherwise one with monthly_spend at or
\* above monthly_budget is PAUSED for MONTHLY_BUDGET_EXCEEDED.
C7_CheckBudgetLimits ==
    last.op = "Campaign.check_budget_limits" =>
        LET c == campaign[last.target]
        IN  /\ c.daily_spend >= c.daily_budget =>
                    c.status = "PAUSED" /\ c.pause_reason = "DAILY_BUDGET_EXCEEDED"
            /\ c.daily_spend < c.daily_budget /\ c.monthly_spend >= c.monthly_budget =>
                    c.status = "PAUSED" /\ c.pause_reason = "MONTHLY_BUDGET_EXCEEDED"

\* The method ran on a campaign exactly at its daily budget with the monthly
\* limit reached too
C7_Witness ==
    /\ last.op = "Campaign.check_budget_limits"
    /\ campaign[last.target].daily_spend = campaign[last.target].daily_budget
    /\ campaign[last.target].monthly_spend >= campaign[last.target].monthly_budget
    /\ campaign[last.target].pause_reason = "DAILY_BUDGET_EXCEEDED"

\* C8: a run of pause_campaigns_exceeding_budget makes every campaign that is
\* PAUSED for a budget reason with both totals under budget ACTIVE with no
\* pause_reason.
C8_SweepReactivates ==
    [][ last'.op = "pause_campaigns_exceeding_budget" =>
            \A id \in Campaigns :
                /\ campaign[id].status = "PAUSED"
                /\ campaign[id].pause_reason \in BudgetReasons
                /\ can_resume(campaign[id])
                => /\ campaign'[id].status = "ACTIVE"
                   /\ campaign'[id].pause_reason = NULL ]_vars

\* C9: after Brand.check_budget_limits the brand's is_active equals
\* (daily_spend < daily_budget and monthly_spend < monthly_budget).
C9_BrandActiveIffUnderBudget ==
    last.op = "Brand.check_budget_limits" =>
        LET b == brand[last.target]
        IN  b.is_active <=> /\ b.daily_spend < b.daily_budget
                            /\ b.monthly_spend < b.monthly_budget

\* The method ran on a brand that has spent and is under both budgets
C9_Witness ==
    /\ last.op = "Brand.check_budget_limits"
    /\ brand[last.target].is_active
    /\ brand[last.target].daily_spend > 0
    /\ brand[last.target].monthly_spend > 0

\* C10: after a run of pause_campaigns_exceeding_budget every brand at or
\* above one of its budgets has is_active False and every brand under both
\* has is_active True.
C10_SweepCoversBrands ==
    BudgetSwept =>
        \A b \in Brands :
            brand[b].is_active <=> /\ brand[b].daily_spend < brand[b].daily_budget
                                   /\ brand[b].monthly_spend < brand[b].monthly_budget


UnderBothBudgets(c) ==
    c.daily_spend < c.daily_budget /\ c.monthly_spend < c.monthly_budget

\* C11: reactivate_eligible_campaigns makes every PAUSED campaign with
\* daily_spend < daily_budget and monthly_spend < monthly_budget (both strict,
\* which is when can_resume is true) ACTIVE with no pause_reason, and leaves
\* every other PAUSED campaign as it is, PAUSED with its reason.
C11_ReactivationSweep ==
    [][ last'.op = "reactivate_eligible_campaigns" =>
            \A id \in Campaigns :
                campaign[id].status = "PAUSED" =>
                    /\ can_resume(campaign[id]) <=> UnderBothBudgets(campaign[id])
                    /\ IF UnderBothBudgets(campaign[id])
                       THEN /\ campaign'[id].status = "ACTIVE"
                            /\ campaign'[id].pause_reason = NULL
                       ELSE campaign'[id] = campaign[id] ]_vars

\* The reactivation sweep ran over a campaign paused for the monthly budget
\* whose daily total is under budget and whose monthly total is above it
C11_Witness ==
    /\ last.op = "reactivate_eligible_campaigns"
    /\ \E id \in Campaigns :
           /\ campaign[id].status = "PAUSED"
           /\ campaign[id].pause_reason = "MONTHLY_BUDGET_EXCEEDED"
           /\ campaign[id].daily_spend < campaign[id].daily_budget
           /\ campaign[id].monthly_spend > campaign[id].monthly_budget

\* C12: a campaign goes from PAUSED to ACTIVE only with both totals under
\* budget, and one paused for OUTSIDE_DAYPARTING_HOURS only at a day and hour
\* inside one of its active schedules.
C12_ResumeOnlyWhenCleared ==
    [][ \A id \in Campaigns :
           campaign[id].status = "PAUSED" /\ campaign'[id].status = "ACTIVE" =>
               /\ UnderBothBudgets(campaign'[id])
               /\ campaign[id].pause_reason = "OUTSIDE_DAYPARTING_HOURS" =>
                      is_within_dayparting(schedules[id], now') ]_vars

\* C13: pause_reason is set exactly when status is PAUSED, and is then one of
\* the three reasons; an ACTIVE or COMPLETED campaign has none.
C13_ReasonIffPaused ==
    \A id \in Campaigns :
        /\ campaign[id].pause_reason # NULL <=> campaign[id].status = "PAUSED"
        /\ campaign[id].pause_reason \in PauseReasons \cup {NULL}

\* The dayparting sweep has reactivated a campaign inside its window that it
\* had paused before: ACTIVE, the reason cleared
C13_Witness ==
    /\ last.op = "enforce_dayparting"
    /\ \E id \in Campaigns :
           /\ campaign[id].status = "ACTIVE"
           /\ campaign[id].pause_reason = NULL
           /\ is_within_dayparting(schedules[id], now)
           /\ calls[id] > 0


\* C14: COMPLETED is terminal: no step changes the status of a COMPLETED
\* campaign, and no step moves a campaign into COMPLETED.
C14_CompletedTerminal ==
    [][ \A id \in Campaigns :
           (campaign[id].status = "COMPLETED") =
               (campaign'[id].status = "COMPLETED") ]_vars

PausedForHours(c) ==
    c.status = "PAUSED" /\ c.pause_reason = "OUTSIDE_DAYPARTING_HOURS"

\* C15: enforce_dayparting, for a campaign with is_active True and at least
\* one schedule: outside dayparting and not already paused for
\* OUTSIDE_DAYPARTING_HOURS it becomes PAUSED with that reason; within
\* dayparting, paused for that reason and able to resume it becomes ACTIVE
\* with no reason; within dayparting, paused for that reason and unable to
\* resume it stays as it is.
C15_EnforceDayparting ==
    [][ last'.op = "enforce_dayparting" =>
            \A id \in Campaigns :
                campaign[id].is_active /\ schedules[id] # {} =>
                    LET c == campaign[id]
                        within == is_within_dayparting(schedules[id], now)
                    IN  /\ ~within /\ ~PausedForHours(c) =>
                              /\ campaign'[id].status = "PAUSED"
                              /\ campaign'[id].pause_reason =
                                     "OUTSIDE_DAYPARTING_HOURS"
                        /\ within /\ PausedForHours(c) /\ UnderBothBudgets(c) =>
                              /\ campaign'[id].status = "ACTIVE"
                              /\ campaign'[id].pause_reason = NULL
                        /\ within /\ PausedForHours(c) /\ ~UnderBothBudgets(c) =>
                              campaign'[id] = c ]_vars

\* The sweep ran inside the window over a campaign paused for the hours whose
\* daily total is at its budget: it is still paused
C15_Witness ==
    /\ last.op = "enforce_dayparting"
    /\ \E id \in Campaigns :
           /\ campaign[id].is_active
           /\ is_within_dayparting(schedules[id], now)
           /\ PausedForHours(campaign[id])
           /\ campaign[id].daily_spend >= campaign[id].daily_budget

\* C16: enforce_dayparting changes no field of a campaign that has no
\* DaypartingSchedule, at any day and hour and whatever the campaign's state.
C16_NoScheduleNoChange ==
    [][ last'.op = "enforce_dayparting" =>
            \A id \in Campaigns :
                schedules[id] = {} => campaign'[id] = campaign[id] ]_vars

\* The sweep ran over an ACTIVE, is_active campaign with no schedule
C16_Witness ==
    /\ last.op = "enforce_dayparting"
    /\ \E id \in Campaigns :
           /\ schedules[id] = {}
           /\ campaign[id].is_active
           /\ campaign[id].status = "ACTIVE"

\* C17: enforce_dayparting leaves the status and the pause_reason of every
\* campaign paused for DAILY_BUDGET_EXCEEDED or MONTHLY_BUDGET_EXCEEDED as
\* they are, inside or outside its schedules.
C17_BudgetPauseUntouched ==
    [][ last'.op = "enforce_dayparting" =>
            \A id \in Campaigns :
                /\ campaign[id].status = "PAUSED"
                /\ campaign[id].pause_reason \in BudgetReasons
                => /\ campaign'[id].status = campaign[id].status
                   /\ campaign'[id].pause_reason = campaign[id].pause_reason ]_vars


\* C18: reset_daily_budgets sets daily_spend of every brand and campaign to
\* zero and changes no other field; reset_monthly_budgets does the same with
\* monthly_spend. The status, pause_reason and is_active of a paused campaign
\* are what they were.
C18_ResetsOnlyZero ==
    [][ /\ last'.op = "reset_daily_budgets" =>
              /\ \A id \in Campaigns :
                     campaign'[id] = [campaign[id] EXCEPT !.daily_spend = 0]
              /\ \A b \in Brands :
                     brand'[b] = [brand[b] EXCEPT !.daily_spend = 0]
        /\ last'.op = "reset_monthly_budgets" =>
              /\ \A id \in Campaigns :
                     campaign'[id] = [campaign[id] EXCEPT !.monthly_spend = 0]
              /\ \A b \in Brands :
                     brand'[b] = [brand[b] EXCEPT !.monthly_spend = 0] ]_vars

\* The monthly reset ran over a paused campaign and an inactive brand whose
\* daily totals are not zero
C18_Witness ==
    /\ last.op = "reset_monthly_budgets"
    /\ \E id \in Campaigns :
           /\ campaign[id].status = "PAUSED"
           /\ campaign[id].pause_reason = "MONTHLY_BUDGET_EXCEEDED"
           /\ campaign[id].monthly_spend = 0
           /\ campaign[id].daily_spend > 0
    /\ \E b \in Brands :
           /\ ~brand[b].is_active
           /\ brand[b].monthly_spend = 0
           /\ brand[b].daily_spend > 0

\* C19: each scheduled task, run a second time on the rows its first run
\* left (the dayparting sweep at the same day and hour), changes nothing.
C19_Idempotent ==
    /\ budget_swept(budget_swept(campaign)) = budget_swept(campaign)
    /\ campaigns_reset_daily(campaigns_reset_daily(campaign)) =
           campaigns_reset_daily(campaign)
    /\ brands_reset_daily(brands_reset_daily(brand)) = brands_reset_daily(brand)
    /\ campaigns_reset_monthly(campaigns_reset_monthly(campaign)) =
           campaigns_reset_monthly(campaign)
    /\ brands_reset_monthly(brands_reset_monthly(brand)) =
           brands_reset_monthly(brand)
    /\ reactivated(reactivated(campaign)) = reactivated(campaign)
    /\ \A t \in Clock :
           dayparted(dayparted(campaign, t), t) = dayparted(campaign, t)

\* After a spend up to the daily budget and a reactivation sweep: a state that
\* the budget sweep, the daily reset and the dayparting sweep would each change
C19_Witness ==
    /\ last.op = "reactivate_eligible_campaigns"
    /\ budget_swept(campaign) # campaign
    /\ campaigns_reset_daily(campaign) # campaign
    /\ dayparted(campaign, now) # campaign
    /\ \E id \in Campaigns : campaign[id].daily_spend = campaign[id].daily_budget

\* C20: is_hour_in_range(start, end, hour) is (start <= hour < end) when
\* start < end and (hour >= start or hour < end) otherwise; the window 22 to
\* 2 holds exactly the hours 22, 23, 0 and 1; a window with start # end holds
\* (end - start) mod 24 hours.
C20_HourInRange ==
    last.op = "is_hour_in_range" =>
        \A s \in schedules[last.target] :
            LET start == s.start_hour
                end == s.end_hour
                hour == now.hour
            IN  /\ start < end => (last.result <=> (start <= hour /\ hour < end))
                /\ start >= end => (last.result <=> (hour >= start \/ hour < end))
                /\ start = 22 /\ end = 2 =>
                       (last.result <=> hour \in {22, 23, 0, 1})
                /\ start # end =>
                       Cardinality({h \in Hours : is_hour_in_range(start, end, h)})
                           = (end - start) % 24

\* The wraparound window 22 to 2 was asked about hour 1 and answered true
C20_Witness ==
    /\ last.op = "is_hour_in_range"
    /\ last.result = TRUE
    /\ now.hour = 1
    /\ \E s \in schedules[last.target] : s.start_hour = 22 /\ s.end_hour = 2


\* C21: a negative amount is rejected before anything is written: no
\* completed process_ad_spend has a negative amount, no Spend row has one,
\* and daily_spend and monthly_spend are never negative.
C21_NegativeRejected ==
    /\ ~(Recorded /\ last.amount < 0)
    /\ \A r \in BagToSet(spends) : r.amount >= 0
    /\ \A id \in Campaigns :
           campaign[id].daily_spend >= 0 /\ campaign[id].monthly_spend >= 0

C27_EqualBoundsCoverDay ==
    last.op = "is_hour_in_range" =>
        \A s \in schedules[last.target] :
            s.start_hour = s.end_hour =>
                /\ last.result = TRUE
                /\ \A h \in Hours :
                       is_within_dayparting({s}, [weekday |-> s.day_of_week,
                                                  hour |-> h])

\* A window from 9 to 9 was asked about hour 3 and answered true
C27_Witness ==
    /\ last.op = "is_hour_in_range"
    /\ last.result = TRUE
    /\ now.hour = 3
    /\ \E s \in schedules[last.target] : s.start_hour = 9 /\ s.end_hour = 9

\* C29: with amounts >= 0 and the operations run one at a time, no campaign is
\* ACTIVE with daily_spend above daily_budget or monthly_spend above
\* monthly_budget.
C29_ActiveWithinBudget ==
    \A id \in Campaigns :
        campaign[id].status = "ACTIVE" =>
            /\ campaign[id].daily_spend <= campaign[id].daily_budget
            /\ campaign[id].monthly_spend <= campaign[id].monthly_budget

\* A campaign is ACTIVE with its monthly total at the monthly budget after a
\* spend that completed
C29_Witness ==
    /\ Recorded
    /\ \E id \in Campaigns :
           /\ campaign[id].status = "ACTIVE"
           /\ campaign[id].monthly_spend = campaign[id].monthly_budget
           /\ calls[id] > 1

VisitsActiveOnly ==
    {"pause_campaigns_exceeding_budget", "enforce_dayparting", "simulate_ad_spend"}

\* C30: is_active changes only in a process_ad_spend (also the one
\* simulate_ad_spend calls) and only to False; once False it stays False, and
\* pause_campaigns_exceeding_budget, enforce_dayparting and simulate_ad_spend
\* then change neither the campaign nor its Spend rows.
C30_IsActiveOneWay ==
    [][ \A id \in Campaigns :
           /\ campaign'[id].is_active # campaign[id].is_active =>
                  /\ last'.op \in {"process_ad_spend", "simulate_ad_spend"}
                  /\ ~campaign'[id].is_active
           /\ ~campaign[id].is_active =>
                  /\ ~campaign'[id].is_active
                  /\ last'.op \in VisitsActiveOnly =>
                         /\ campaign'[id] = campaign[id]
                         /\ SpendsOf(id)' = SpendsOf(id) ]_vars

\* The dayparting sweep ran outside the window of a campaign that the
\* recording path had paused and the reactivation made ACTIVE: it is ACTIVE
C30_Witness ==
    /\ last.op = "enforce_dayparting"
    /\ \E id \in Campaigns :
           /\ ~campaign[id].is_active
           /\ campaign[id].status = "ACTIVE"
           /\ schedules[id] # {}
           /\ ~is_within_dayparting(schedules[id], now)


Matches(s, t) ==
    /\ s.is_active
    /\ s.day_of_week = t.weekday
    /\ IF s.start_hour < s.end_hour
       THEN s.start_hour <= t.hour /\ t.hour < s.end_hour
       ELSE t.hour >= s.start_hour \/ t.hour < s.end_hour

\* C26: is_within_dayparting(now) is true exactly when some schedule of the
\* campaign with is_active True has now's weekday and holds now's hour; it is
\* false with no schedule, when every schedule is for another weekday, and
\* when every schedule is inactive.
C26_WithinDayparting ==
    last.op = "is_within_dayparting" =>
        LET scheds == schedules[last.target]
        IN  /\ last.result <=> \E s \in scheds : Matches(s, now)
            /\ scheds = {} => last.result = FALSE
            /\ (\A s \in scheds : s.day_of_week # now.weekday) =>
                   last.result = FALSE
            /\ (\A s \in scheds : ~s.is_active) => last.result = FALSE

\* The answer was false on a Tuesday at 14 for a campaign with an active
\* Monday window 9 to 17 and an inactive Tuesday window 9 to 17
C26_Witness ==
    /\ last.op = "is_within_dayparting"
    /\ last.result = FALSE
    /\ now = [weekday |-> 1, hour |-> 14]
    /\ Schedule(0, 9, 17, TRUE) \in schedules[last.target]
    /\ Schedule(1, 9, 17, FALSE) \in schedules[last.target]


CampaignLevel ==
    {"process_ad_spend", "pause_campaigns_exceeding_budget",
     "reactivate_eligible_campaigns", "enforce_dayparting"}

\* C24: process_ad_spend and the campaign-level sweeps leave every Brand row
\* as it is, and what they do to a campaign's status follows from the
\* campaign's own totals and budgets whatever the budget state of its brand:
\* a completed spend pauses exactly when a new total is above its budget, the
\* budget sweep pauses every selected campaign at or above a budget, the
\* reactivation resumes every paused campaign below both.
C24_LedgersIndependent ==
    [][ last'.op \in CampaignLevel =>
          /\ brand' = brand
          /\ \A id \in Campaigns :
                LET c == campaign[id]
                IN  /\ Recorded_ /\ last'.target = id =>
                          IF \/ c.daily_spend + last'.amount > c.daily_budget
                             \/ c.monthly_spend + last'.amount > c.monthly_budget
                          THEN campaign'[id].status = "PAUSED"
                          ELSE campaign'[id].status = c.status
                    /\ /\ last'.op = "pause_campaigns_exceeding_budget"
                       /\ c.is_active /\ c.status = "ACTIVE"
                       /\ ~UnderBothBudgets(c)
                       => campaign'[id].status = "PAUSED"
                    /\ /\ last'.op = "reactivate_eligible_campaigns"
                       /\ c.status = "PAUSED"
                       /\ UnderBothBudgets(c)
                       => campaign'[id].status = "ACTIVE" ]_vars

\* The budget sweep has paused a campaign whose brand is inactive and over
\* its own daily budget
C24_Witness ==
    /\ last.op = "pause_campaigns_exceeding_budget"
    /\ \E id \in Campaigns :
           /\ campaign[id].status = "PAUSED"
           /\ campaign[id].is_active
           /\ campaign[id].pause_reason \in BudgetReasons
           /\ ~brand[campaign[id].brand].is_active
           /\ brand[campaign[id].brand].daily_spend >
                  brand[campaign[id].brand].daily_budget

\* C28: in one run simulate_ad_spend creates at most one Spend row for a
\* campaign, and one only if the campaign had is_active True, status ACTIVE,
\* at least one schedule and an active schedule holding the current day and
\* hour; every other campaign is left as it is.
C28_SimulatesInWindowOnly ==
    [][ last'.op = "simulate_ad_spend" =>
          \A id \in Campaigns :
              LET eligible == /\ campaign[id].is_active
                              /\ campaign[id].status = "ACTIVE"
                              /\ schedules[id] # {}
                              /\ \E s \in schedules[id] : Matches(s, now)
              IN  /\ SpendsOf(id)' - SpendsOf(id) \in {0, 1}
                  /\ SpendsOf(id)' > SpendsOf(id) => eligible
                  /\ ~eligible => campaign'[id] = campaign[id] ]_vars

\* The only spend of a campaign is the one a run of simulate_ad_spend fed
C28_Witness ==
    /\ last.op = "simulate_ad_spend"
    /\ \E id \in Campaigns :
           /\ calls[id] = 1
           /\ SpendsOf(id) = 1
           /\ campaign[id].daily_spend > 0


\* Both callers have finished and worked on the campaign id
BothDoneOn(id) ==
    \A w \in Workers : worker[w].pc = "done" /\ worker[w].target = id

\* The row after one caller's operation run alone on the row
alone(j, row) ==
    CASE j.op = "process_ad_spend" ->
             inline_budget_check(add_spend(row, j.amount))
      [] j.op = "pause_campaigns_exceeding_budget" ->
             IF row.is_active /\ row.status = "ACTIVE"
             THEN Campaign_check_budget_limits(row)
             ELSE row
      [] j.op = "reset_daily_budgets" -> Campaign_reset_daily_spend(row)
      [] j.op = "reactivate_eligible_campaigns" ->
             IF row.status = "PAUSED" /\ can_resume(row)
             THEN [row EXCEPT !.status = "ACTIVE", !.pause_reason = NULL]
             ELSE row

\* C22: after two process_ad_spend calls for one campaign, each from its own
\* loaded copy and interleaved in any way, daily_spend and monthly_spend are
\* the prior values plus both amounts and the campaign is paused or not as
\* that combined total decides.
C22_NoLostUpdate ==
    \A id \in Campaigns :
        /\ BothDoneOn(id)
        /\ \A w \in Workers : worker[w].op = "process_ad_spend"
        => LET start == worker["w1"].start
               both == worker["w1"].amount + worker["w2"].amount
           IN  /\ campaign[id].daily_spend = start.daily_spend + both
               /\ campaign[id].monthly_spend = start.monthly_spend + both
               /\ campaign[id] = inline_budget_check(add_spend(start, both))

\* C23: after a sweep's step on a campaign interleaved with a process_ad_spend
\* or another sweep's step on it, the row is what one of the two serial orders
\* of the two operations leaves; no campaign is left ACTIVE with daily_spend
\* above daily_budget.
C23_SweepsSerializable ==
    \A id \in Campaigns :
        /\ BothDoneOn(id)
        /\ \E w \in Workers : worker[w].op # "process_ad_spend"
        => LET start == worker["w1"].start
               j1 == worker["w1"]
               j2 == worker["w2"]
           IN  /\ campaign[id] \in { alone(j2, alone(j1, start)),
                                     alone(j1, alone(j2, start)) }
               /\ campaign[id].status = "ACTIVE" =>
                      campaign[id].daily_spend <= campaign[id].daily_budget


\* C31: a process_ad_spend that completed, whatever the campaign's status
\* was, has created one Spend row and added the amount to daily_spend and
\* monthly_spend; it has not made the campaign ACTIVE nor cleared its
\* pause_reason; if it changed the status, then to PAUSED with a budget
\* reason, and a campaign paused for OUTSIDE_DAYPARTING_HOURS whose new total
\* is above a budget has a budget reason afterwards.
C31_RecordsWhateverStatus ==
    [][ \A id \in Campaigns :
           Recorded_ /\ last'.target = id =>
               LET c == campaign[id]
                   d == campaign'[id]
               IN  /\ SpendsOf(id)' = SpendsOf(id) + 1
                   /\ d.daily_spend = c.daily_spend + last'.amount
                   /\ d.monthly_spend = c.monthly_spend + last'.amount
                   /\ d.status = "ACTIVE" => c.status = "ACTIVE"
                   /\ d.pause_reason = NULL => c.pause_reason = NULL
                   /\ d.status # c.status =>
                          /\ d.status = "PAUSED"
                          /\ d.pause_reason \in BudgetReasons
                   /\ PausedForHours(c) /\ (DailyExceeded(d) \/ MonthlyExceeded(d))
                          => d.pause_reason \in BudgetReasons ]_vars

\* A spend was recorded on a campaign paused for the hours, within budget:
\* it is still paused for the hours and its totals hold the amount
C31_Witness ==
    /\ Recorded
    /\ last.amount > 0
    /\ PausedForHours(campaign[last.target])
    /\ campaign[last.target].daily_spend = last.amount

\* C32: a campaign with is_active True that has schedules, all of them with
\* is_active False, is PAUSED for OUTSIDE_DAYPARTING_HOURS after every run of
\* enforce_dayparting, at every day and hour, whatever it was before.
C32_InactiveSchedulesClose ==
    [][ last'.op = "enforce_dayparting" =>
          \A id \in Campaigns :
              /\ campaign[id].is_active
              /\ schedules[id] # {}
              /\ \A s \in schedules[id] : ~s.is_active
              => PausedForHours(campaign'[id]) ]_vars

\* The sweep ran at an hour the switched-off schedule holds, over a campaign
\* with budget room: it is paused for the hours
C32_Witness ==
    /\ last.op = "enforce_dayparting"
    /\ \E id \in Campaigns :
           /\ campaign[id].is_active
           /\ PausedForHours(campaign[id])
           /\ UnderBothBudgets(campaign[id])
           /\ \A s \in schedules[id] : ~s.is_active
           /\ \E s \in schedules[id] :
                  /\ s.day_of_week = now.weekday
                  /\ is_hour_in_range(s.start_hour, s.end_hour, now.hour)

====
